---- MODULE Spec2Model ----
(***************************************************************************)
(* A model of backend/main.py of the PDF extraction playground: the two    *)
(* extraction adapters (extract_with_pdfplumber, extract_with_tesseract),  *)
(* the /extract orchestrator and the /preview page-image cache.            *)
(*                                                                         *)
(* Text is a sequence of characters, each a string; a character a TLA+     *)
(* string cannot hold is named by its Python escape.  Point coordinates    *)
(* are integers counting 1/PtDen of a point, PtDen a power of two so that  *)
(* every coordinate is exact as a binary double.  The external libraries   *)
(* (pdfplumber, pdf2image, pytesseract) are inputs: what they return, or   *)
(* that they raise, for the path a request names is the description doc.   *)
(***************************************************************************)
EXTENDS Integers, Sequences, FiniteSets, TLC

VARIABLES
    installed,    \* the optional libraries whose import succeeded (lines 13-30)
    doc,          \* what the libraries report for the path the request names
    call,         \* adapter-level call: [fn, dpi], or NoCall
    ret,          \* its outcome, or Pending
    req,          \* the /extract request body
    pc,           \* position of the /extract handler
    chosen,       \* extract: the filtered model list
    midx,         \* extract: index into chosen of the next model to run
    response,     \* extract: response["models"]
    summary,      \* extract: response["summary_markdown"]
    reply,        \* extract: what the client receives
    invoked,      \* extract: the adapters called so far, in order
    cache,        \* PREVIEW_DIR: preview name -> file
    preq,         \* the /preview requests: filename and page index
    ppc,          \* preview: position of each request's handler
    pwritten,     \* preview: chunks image.save has written so far
    phit,         \* preview: whether os.path.exists found the entry
    prendered,    \* preview: calls of convert_from_path by each request
    pseen,        \* preview: the bytes the response served
    pend,         \* preview: when each request ended, and the entry's writes then
    cwrites       \* preview: how often each preview file was opened for writing

vars == << installed, doc, call, ret, req, pc, chosen, midx, response, summary,
           reply, invoked, cache, preq, ppc, pwritten, phit, prendered, pseen, pend,
           cwrites >>

extractVars == << req, pc, chosen, midx, response, summary, reply, invoked >>
previewVars == << cache, preq, ppc, pwritten, phit, prendered, pseen, pend, cwrites >>
adapterVars == << call, ret >>

----------------------------------------------------------------------------
(* Bounds of the model *)

\* a point is divided into 2^PtBits units
PtBits == 2
\* longest requested model list
MaxModels == 2
\* longest OCR token stream of a page
MaxTokens == 2
\* most pages of a document
MaxPages == 2
\* number of /preview requests in flight
NReq == 2
\* number of chunks image.save writes
NChunks == 2

(* Program constants *)

PREVIEW_DPI == 150
PointsPerInch == 72
SummaryLimit == 2000
\* bits of the fraction of a double, the type of dpi / 72.0
FractionBits == 52
\* sys.get_int_max_str_digits(): the longest literal int() converts
MaxStrDigits == 4300

\* units of a point (quarter points)
PtDen == 2 ^ PtBits

Libs == {"pdfplumber", "pdf2image", "pytesseract"}
supported_models == {"pdfplumber", "tesseract"}

----------------------------------------------------------------------------
(* Outcomes of a call *)

Ok(pages) == [kind |-> "ok", pages |-> pages]
Http(status, detail) == [kind |-> "http", status |-> status, detail |-> detail]
Exc(msg) == [kind |-> "exc", msg |-> msg]
Pending == [kind |-> "pending"]
NoCall == [fn |-> "none", dpi |-> 0]

----------------------------------------------------------------------------
(* Python built-ins *)

\* int(x) of the real number n/d (d > 0): truncation toward zero
Trunc(n, d) == IF n >= 0 THEN n \div d ELSE -((-n) \div d)

\* s[:k]
Prefix(s, k) == SubSeq(s, 1, IF Len(s) < k THEN Len(s) ELSE k)

\* the white space of C's isspace(): space, \t, \n, \r, \f and \x0b
AsciiSpace == { " ", "\n", "\t", "\r", "\f", "\\x0b" }

\* the separators \x1c..\x1f: white space for str.isspace(), not for int()
SeparatorSpace == { "\\x1c", "\\x1d", "\\x1e", "\\x1f" }

\* the white space beyond ASCII
UnicodeSpace ==
    { "\\x85", "\\xa0", "\\u1680", "\\u2000", "\\u2001", "\\u2002", "\\u2003",
      "\\u2004", "\\u2005", "\\u2006", "\\u2007", "\\u2008", "\\u2009", "\\u200a",
      "\\u2028", "\\u2029", "\\u202f", "\\u205f", "\\u3000" }

\* c.isspace(): what str.strip() removes
IsSpace(c) == c \in AsciiSpace \cup SeparatorSpace \cup UnicodeSpace

\* what int() of a str skips at either end
IsIntSpace(c) == c \in AsciiSpace \cup UnicodeSpace

\* s with its leading characters of W removed
RECURSIVE LStripOf(_, _)
LStripOf(s, W) == IF s # << >> /\ Head(s) \in W THEN LStripOf(Tail(s), W) ELSE s

\* s with its trailing characters of W removed
RECURSIVE RStripOf(_, _)
RStripOf(s, W) ==
    IF s # << >> /\ s[Len(s)] \in W THEN RStripOf(SubSeq(s, 1, Len(s) - 1), W) ELSE s

\* s.lstrip()
LStrip(s) == LStripOf(s, AsciiSpace \cup SeparatorSpace \cup UnicodeSpace)

\* s.rstrip()
RStrip(s) == RStripOf(s, AsciiSpace \cup SeparatorSpace \cup UnicodeSpace)

\* s.strip()
Strip(s) == RStrip(LStrip(s))

\* d.get(key, default)
Get(d, key, default) == IF key \in DOMAIN d THEN d[key] ELSE default

\* sep.join(parts)
RECURSIVE Join(_, _)
Join(parts, sep) ==
    IF parts = << >> THEN << >>
    ELSE IF Len(parts) = 1 THEN parts[1]
    ELSE parts[1] \o sep \o Join(Tail(parts), sep)

\* a faulty Filter: the membership test is missing
FilterKeepAll(s, keep) == s

\* [x for x in s if x in keep]
RECURSIVE Filter(_, _)
Filter(s, keep) ==
    IF s = << >> THEN << >>
    ELSE IF Head(s) \in keep THEN << Head(s) >> \o Filter(Tail(s), keep)
    ELSE Filter(Tail(s), keep)

\* the decimal digits int() takes: every character of Unicode category Nd, in
\* runs of ten from the zero of each script; value + 1 is the place in the run
DigitRuns ==
    << << "0", "1", "2", "3", "4", "5", "6", "7", "8", "9" >>,
       << "\\u0660", "\\u0661", "\\u0662", "\\u0663", "\\u0664", "\\u0665", "\\u0666", "\\u0667", "\\u0668", "\\u0669" >>,
       << "\\u06f0", "\\u06f1", "\\u06f2", "\\u06f3", "\\u06f4", "\\u06f5", "\\u06f6", "\\u06f7", "\\u06f8", "\\u06f9" >>,
       << "\\u07c0", "\\u07c1", "\\u07c2", "\\u07c3", "\\u07c4", "\\u07c5", "\\u07c6", "\\u07c7", "\\u07c8", "\\u07c9" >>,
       << "\\u0966", "\\u0967", "\\u0968", "\\u0969", "\\u096a", "\\u096b", "\\u096c", "\\u096d", "\\u096e", "\\u096f" >>,
       << "\\u09e6", "\\u09e7", "\\u09e8", "\\u09e9", "\\u09ea", "\\u09eb", "\\u09ec", "\\u09ed", "\\u09ee", "\\u09ef" >>,
       << "\\u0a66", "\\u0a67", "\\u0a68", "\\u0a69", "\\u0a6a", "\\u0a6b", "\\u0a6c", "\\u0a6d", "\\u0a6e", "\\u0a6f" >>,
       << "\\u0ae6", "\\u0ae7", "\\u0ae8", "\\u0ae9", "\\u0aea", "\\u0aeb", "\\u0aec", "\\u0aed", "\\u0aee", "\\u0aef" >>,
       << "\\u0b66", "\\u0b67", "\\u0b68", "\\u0b69", "\\u0b6a", "\\u0b6b", "\\u0b6c", "\\u0b6d", "\\u0b6e", "\\u0b6f" >>,
       << "\\u0be6", "\\u0be7", "\\u0be8", "\\u0be9", "\\u0bea", "\\u0beb", "\\u0bec", "\\u0bed", "\\u0bee", "\\u0bef" >>,
       << "\\u0c66", "\\u0c67", "\\u0c68", "\\u0c69", "\\u0c6a", "\\u0c6b", "\\u0c6c", "\\u0c6d", "\\u0c6e", "\\u0c6f" >>,
       << "\\u0ce6", "\\u0ce7", "\\u0ce8", "\\u0ce9", "\\u0cea", "\\u0ceb", "\\u0cec", "\\u0ced", "\\u0cee", "\\u0cef" >>,
       << "\\u0d66", "\\u0d67", "\\u0d68", "\\u0d69", "\\u0d6a", "\\u0d6b", "\\u0d6c", "\\u0d6d", "\\u0d6e", "\\u0d6f" >>,
       << "\\u0de6", "\\u0de7", "\\u0de8", "\\u0de9", "\\u0dea", "\\u0deb", "\\u0dec", "\\u0ded", "\\u0dee", "\\u0def" >>,
       << "\\u0e50", "\\u0e51", "\\u0e52", "\\u0e53", "\\u0e54", "\\u0e55", "\\u0e56", "\\u0e57", "\\u0e58", "\\u0e59" >>,
       << "\\u0ed0", "\\u0ed1", "\\u0ed2", "\\u0ed3", "\\u0ed4", "\\u0ed5", "\\u0ed6", "\\u0ed7", "\\u0ed8", "\\u0ed9" >>,
       << "\\u0f20", "\\u0f21", "\\u0f22", "\\u0f23", "\\u0f24", "\\u0f25", "\\u0f26", "\\u0f27", "\\u0f28", "\\u0f29" >>,
       << "\\u1040", "\\u1041", "\\u1042", "\\u1043", "\\u1044", "\\u1045", "\\u1046", "\\u1047", "\\u1048", "\\u1049" >>,
       << "\\u1090", "\\u1091", "\\u1092", "\\u1093", "\\u1094", "\\u1095", "\\u1096", "\\u1097", "\\u1098", "\\u1099" >>,
       << "\\u17e0", "\\u17e1", "\\u17e2", "\\u17e3", "\\u17e4", "\\u17e5", "\\u17e6", "\\u17e7", "\\u17e8", "\\u17e9" >>,
       << "\\u1810", "\\u1811", "\\u1812", "\\u1813", "\\u1814", "\\u1815", "\\u1816", "\\u1817", "\\u1818", "\\u1819" >>,
       << "\\u1946", "\\u1947", "\\u1948", "\\u1949", "\\u194a", "\\u194b", "\\u194c", "\\u194d", "\\u194e", "\\u194f" >>,
       << "\\u19d0", "\\u19d1", "\\u19d2", "\\u19d3", "\\u19d4", "\\u19d5", "\\u19d6", "\\u19d7", "\\u19d8", "\\u19d9" >>,
       << "\\u1a80", "\\u1a81", "\\u1a82", "\\u1a83", "\\u1a84", "\\u1a85", "\\u1a86", "\\u1a87", "\\u1a88", "\\u1a89" >>,
       << "\\u1a90", "\\u1a91", "\\u1a92", "\\u1a93", "\\u1a94", "\\u1a95", "\\u1a96", "\\u1a97", "\\u1a98", "\\u1a99" >>,
       << "\\u1b50", "\\u1b51", "\\u1b52", "\\u1b53", "\\u1b54", "\\u1b55", "\\u1b56", "\\u1b57", "\\u1b58", "\\u1b59" >>,
       << "\\u1bb0", "\\u1bb1", "\\u1bb2", "\\u1bb3", "\\u1bb4", "\\u1bb5", "\\u1bb6", "\\u1bb7", "\\u1bb8", "\\u1bb9" >>,
       << "\\u1c40", "\\u1c41", "\\u1c42", "\\u1c43", "\\u1c44", "\\u1c45", "\\u1c46", "\\u1c47", "\\u1c48", "\\u1c49" >>,
       << "\\u1c50", "\\u1c51", "\\u1c52", "\\u1c53", "\\u1c54", "\\u1c55", "\\u1c56", "\\u1c57", "\\u1c58", "\\u1c59" >>,
       << "\\ua620", "\\ua621", "\\ua622", "\\ua623", "\\ua624", "\\ua625", "\\ua626", "\\ua627", "\\ua628", "\\ua629" >>,
       << "\\ua8d0", "\\ua8d1", "\\ua8d2", "\\ua8d3", "\\ua8d4", "\\ua8d5", "\\ua8d6", "\\ua8d7", "\\ua8d8", "\\ua8d9" >>,
       << "\\ua900", "\\ua901", "\\ua902", "\\ua903", "\\ua904", "\\ua905", "\\ua906", "\\ua907", "\\ua908", "\\ua909" >>,
       << "\\ua9d0", "\\ua9d1", "\\ua9d2", "\\ua9d3", "\\ua9d4", "\\ua9d5", "\\ua9d6", "\\ua9d7", "\\ua9d8", "\\ua9d9" >>,
       << "\\ua9f0", "\\ua9f1", "\\ua9f2", "\\ua9f3", "\\ua9f4", "\\ua9f5", "\\ua9f6", "\\ua9f7", "\\ua9f8", "\\ua9f9" >>,
       << "\\uaa50", "\\uaa51", "\\uaa52", "\\uaa53", "\\uaa54", "\\uaa55", "\\uaa56", "\\uaa57", "\\uaa58", "\\uaa59" >>,
       << "\\uabf0", "\\uabf1", "\\uabf2", "\\uabf3", "\\uabf4", "\\uabf5", "\\uabf6", "\\uabf7", "\\uabf8", "\\uabf9" >>,
       << "\\uff10", "\\uff11", "\\uff12", "\\uff13", "\\uff14", "\\uff15", "\\uff16", "\\uff17", "\\uff18", "\\uff19" >>,
       << "\\U000104a0", "\\U000104a1", "\\U000104a2", "\\U000104a3", "\\U000104a4", "\\U000104a5", "\\U000104a6", "\\U000104a7", "\\U000104a8", "\\U000104a9" >>,
       << "\\U00010d30", "\\U00010d31", "\\U00010d32", "\\U00010d33", "\\U00010d34", "\\U00010d35", "\\U00010d36", "\\U00010d37", "\\U00010d38", "\\U00010d39" >>,
       << "\\U00011066", "\\U00011067", "\\U00011068", "\\U00011069", "\\U0001106a", "\\U0001106b", "\\U0001106c", "\\U0001106d", "\\U0001106e", "\\U0001106f" >>,
       << "\\U000110f0", "\\U000110f1", "\\U000110f2", "\\U000110f3", "\\U000110f4", "\\U000110f5", "\\U000110f6", "\\U000110f7", "\\U000110f8", "\\U000110f9" >>,
       << "\\U00011136", "\\U00011137", "\\U00011138", "\\U00011139", "\\U0001113a", "\\U0001113b", "\\U0001113c", "\\U0001113d", "\\U0001113e", "\\U0001113f" >>,
       << "\\U000111d0", "\\U000111d1", "\\U000111d2", "\\U000111d3", "\\U000111d4", "\\U000111d5", "\\U000111d6", "\\U000111d7", "\\U000111d8", "\\U000111d9" >>,
       << "\\U000112f0", "\\U000112f1", "\\U000112f2", "\\U000112f3", "\\U000112f4", "\\U000112f5", "\\U000112f6", "\\U000112f7", "\\U000112f8", "\\U000112f9" >>,
       << "\\U00011450", "\\U00011451", "\\U00011452", "\\U00011453", "\\U00011454", "\\U00011455", "\\U00011456", "\\U00011457", "\\U00011458", "\\U00011459" >>,
       << "\\U000114d0", "\\U000114d1", "\\U000114d2", "\\U000114d3", "\\U000114d4", "\\U000114d5", "\\U000114d6", "\\U000114d7", "\\U000114d8", "\\U000114d9" >>,
       << "\\U00011650", "\\U00011651", "\\U00011652", "\\U00011653", "\\U00011654", "\\U00011655", "\\U00011656", "\\U00011657", "\\U00011658", "\\U00011659" >>,
       << "\\U000116c0", "\\U000116c1", "\\U000116c2", "\\U000116c3", "\\U000116c4", "\\U000116c5", "\\U000116c6", "\\U000116c7", "\\U000116c8", "\\U000116c9" >>,
       << "\\U00011730", "\\U00011731", "\\U00011732", "\\U00011733", "\\U00011734", "\\U00011735", "\\U00011736", "\\U00011737", "\\U00011738", "\\U00011739" >>,
       << "\\U000118e0", "\\U000118e1", "\\U000118e2", "\\U000118e3", "\\U000118e4", "\\U000118e5", "\\U000118e6", "\\U000118e7", "\\U000118e8", "\\U000118e9" >>,
       << "\\U00011950", "\\U00011951", "\\U00011952", "\\U00011953", "\\U00011954", "\\U00011955", "\\U00011956", "\\U00011957", "\\U00011958", "\\U00011959" >>,
       << "\\U00011c50", "\\U00011c51", "\\U00011c52", "\\U00011c53", "\\U00011c54", "\\U00011c55", "\\U00011c56", "\\U00011c57", "\\U00011c58", "\\U00011c59" >>,
       << "\\U00011d50", "\\U00011d51", "\\U00011d52", "\\U00011d53", "\\U00011d54", "\\U00011d55", "\\U00011d56", "\\U00011d57", "\\U00011d58", "\\U00011d59" >>,
       << "\\U00011da0", "\\U00011da1", "\\U00011da2", "\\U00011da3", "\\U00011da4", "\\U00011da5", "\\U00011da6", "\\U00011da7", "\\U00011da8", "\\U00011da9" >>,
       << "\\U00016a60", "\\U00016a61", "\\U00016a62", "\\U00016a63", "\\U00016a64", "\\U00016a65", "\\U00016a66", "\\U00016a67", "\\U00016a68", "\\U00016a69" >>,
       << "\\U00016ac0", "\\U00016ac1", "\\U00016ac2", "\\U00016ac3", "\\U00016ac4", "\\U00016ac5", "\\U00016ac6", "\\U00016ac7", "\\U00016ac8", "\\U00016ac9" >>,
       << "\\U00016b50", "\\U00016b51", "\\U00016b52", "\\U00016b53", "\\U00016b54", "\\U00016b55", "\\U00016b56", "\\U00016b57", "\\U00016b58", "\\U00016b59" >>,
       << "\\U0001d7ce", "\\U0001d7cf", "\\U0001d7d0", "\\U0001d7d1", "\\U0001d7d2", "\\U0001d7d3", "\\U0001d7d4", "\\U0001d7d5", "\\U0001d7d6", "\\U0001d7d7" >>,
       << "\\U0001d7d8", "\\U0001d7d9", "\\U0001d7da", "\\U0001d7db", "\\U0001d7dc", "\\U0001d7dd", "\\U0001d7de", "\\U0001d7df", "\\U0001d7e0", "\\U0001d7e1" >>,
       << "\\U0001d7e2", "\\U0001d7e3", "\\U0001d7e4", "\\U0001d7e5", "\\U0001d7e6", "\\U0001d7e7", "\\U0001d7e8", "\\U0001d7e9", "\\U0001d7ea", "\\U0001d7eb" >>,
       << "\\U0001d7ec", "\\U0001d7ed", "\\U0001d7ee", "\\U0001d7ef", "\\U0001d7f0", "\\U0001d7f1", "\\U0001d7f2", "\\U0001d7f3", "\\U0001d7f4", "\\U0001d7f5" >>,
       << "\\U0001d7f6", "\\U0001d7f7", "\\U0001d7f8", "\\U0001d7f9", "\\U0001d7fa", "\\U0001d7fb", "\\U0001d7fc", "\\U0001d7fd", "\\U0001d7fe", "\\U0001d7ff" >>,
       << "\\U0001e140", "\\U0001e141", "\\U0001e142", "\\U0001e143", "\\U0001e144", "\\U0001e145", "\\U0001e146", "\\U0001e147", "\\U0001e148", "\\U0001e149" >>,
       << "\\U0001e2f0", "\\U0001e2f1", "\\U0001e2f2", "\\U0001e2f3", "\\U0001e2f4", "\\U0001e2f5", "\\U0001e2f6", "\\U0001e2f7", "\\U0001e2f8", "\\U0001e2f9" >>,
       << "\\U0001e950", "\\U0001e951", "\\U0001e952", "\\U0001e953", "\\U0001e954", "\\U0001e955", "\\U0001e956", "\\U0001e957", "\\U0001e958", "\\U0001e959" >>,
       << "\\U0001fbf0", "\\U0001fbf1", "\\U0001fbf2", "\\U0001fbf3", "\\U0001fbf4", "\\U0001fbf5", "\\U0001fbf6", "\\U0001fbf7", "\\U0001fbf8", "\\U0001fbf9" >> >>

\* c is a decimal digit
IsDigit(c) == \E i \in 1..Len(DigitRuns) : \E k \in 1..10 : DigitRuns[i][k] = c

\* value of a decimal digit character
DigitVal(c) ==
    CHOOSE v \in 0..9 : \E i \in 1..Len(DigitRuns) : DigitRuns[i][v + 1] = c

\* the value of the digits of s, its underscores passed over
RECURSIVE DigitsVal(_, _)
DigitsVal(s, acc) ==
    IF s = << >> THEN acc
    ELSE IF Head(s) = "_" THEN DigitsVal(Tail(s), acc)
    ELSE DigitsVal(Tail(s), 10 * acc + DigitVal(Head(s)))

\* a decimal literal: at most MaxStrDigits digits, single underscores allowed
\* between two digits
IsDecimal(s) ==
    /\ s # << >>
    /\ Cardinality({ i \in 1..Len(s) : s[i] # "_" }) <= MaxStrDigits
    /\ \A i \in 1..Len(s) :
          \/ IsDigit(s[i])
          \/ s[i] = "_" /\ 1 < i /\ i < Len(s) /\ IsDigit(s[i - 1]) /\ IsDigit(s[i + 1])

\* int(s) of a str: surrounding white space, an optional sign, a decimal literal;
\* anything else raises ValueError (ok = FALSE)
ParseInt(s) ==
    LET t == RStripOf(LStripOf(s, AsciiSpace \cup UnicodeSpace),
                      AsciiSpace \cup UnicodeSpace)
        signed == t # << >> /\ Head(t) \in {"-", "+"}
        digits == IF signed THEN Tail(t) ELSE t
    IN  IF IsDecimal(digits)
        THEN [ok |-> TRUE,
              v |-> IF signed /\ Head(t) = "-" THEN -DigitsVal(digits, 0)
                    ELSE DigitsVal(digits, 0)]
        ELSE [ok |-> FALSE, v |-> 0]

----------------------------------------------------------------------------
(* extract_with_pdfplumber *)

\* the binary exponent of the positive real n/d: the E with 2^E <= n/d < 2^(E+1)
RECURSIVE BinExpUp(_, _, _)
BinExpUp(n, d, E) == IF d * 2 ^ (E + 1) <= n THEN BinExpUp(n, d, E + 1) ELSE E

RECURSIVE BinExpDown(_, _, _)
BinExpDown(n, d, E) == IF n * 2 ^ (-E) >= d THEN E ELSE BinExpDown(n, d, E - 1)

BinExp(n, d) == IF n >= d THEN BinExpUp(n, d, 0) ELSE BinExpDown(n, d, -1)

\* 2^k modulo 72 (from k = 3 on the residues repeat with period 6)
Pow2Mod72(k) ==
    IF k < 3 THEN 2 ^ k ELSE << 8, 16, 32, 64, 56, 40 >>[((k - 3) % 6) + 1]

\* line 125: scale = dpi / 72.0 (dpi > 0) is the double nearest to dpi/72.  With E
\* the binary exponent of dpi/72 and k = FractionBits - E, scale = m / 2^k for the
\* integer m nearest to dpi * 2^k / 72.  ScaleErr is 72 * m - dpi * 2^k: negative
\* when the quotient was rounded down, positive when up, 0 when it is exact.  (The
\* residue 36 of a tie cannot occur: dpi * 2^k is a multiple of 8.)
ScaleErr(dpi) ==
    LET k == FractionBits - BinExp(dpi, PointsPerInch)
        t == ((dpi % PointsPerInch) * Pow2Mod72(k)) % PointsPerInch
    IN  IF 2 * t < PointsPerInch THEN -t ELSE PointsPerInch - t

\* lines 126-127, 143-146: int(c * scale) for c >= 0 given as a units of 1/PtDen
\* point, dpi > 0.  The product c * scale is rounded to the nearest double, then
\* truncated.  Its exact value is a*dpi/(72*PtDen) + a*ScaleErr/(72*PtDen*2^k), the
\* second term far below one unit of the quotient.  So the result is the floor q0
\* of a*dpi/(72*PtDen), except when that quotient is the integer q0 itself and
\* scale was rounded down: the product then lies just below q0, and is q0 - 1
\* after truncation unless it is within half a unit in the last place of q0, in
\* which case the multiplication rounds it up to q0.
PixelsOf(a, dpi) ==
    LET den == PointsPerInch * PtDen
        q0 == (a * dpi) \div den
        r == ScaleErr(dpi)
        E == BinExp(dpi, PointsPerInch)
        e == BinExp(q0, 1)
        \* half a unit in the last place below q0 is 2^(e - 53), 2^(e - 54) for a
        \* power of two; the product is a * (-r) / (den * 2^k) below q0
        x == e - 1 - E - (IF q0 = 2 ^ e THEN 1 ELSE 0)
        lhs == IF x >= 0 THEN a * (-r) ELSE a * (-r) * 2 ^ (-x)
        rhs == IF x >= 0 THEN den * 2 ^ x ELSE den
    IN  IF a = 0 THEN 0
        ELSE IF (a * dpi) % den # 0 \/ r >= 0 THEN q0
        ELSE IF lhs <= rhs THEN q0 ELSE q0 - 1

\* int(v * scale) with scale = dpi / 72.0, v given in 1/PtDen points: the
\* operations are symmetric in the signs and int() truncates toward zero
ToPixels(v, dpi) ==
    LET a == IF v < 0 THEN -v ELSE v
        d == IF dpi < 0 THEN -dpi ELSE dpi
        mag == IF d = 0 THEN 0 ELSE PixelsOf(a, d)
    IN  IF (v < 0) = (dpi < 0) THEN mag ELSE -mag

\* lines 138-148: one raw word to {"text", "bbox"}
PlumberWord(w, dpi) ==
    LET x0 == Get(w, "x0", 0)
        top == Get(w, "top", 0)
        x1 == Get(w, "x1", x0)
        bottom == Get(w, "bottom", top)
    IN  [text |-> Get(w, "text", << >>),
         bbox |-> << ToPixels(x0, dpi), ToPixels(top, dpi),
                     ToPixels(x1, dpi), ToPixels(bottom, dpi) >>]

\* lines 133-150: extract_words() and its conversion; any exception gives []
PlumberWords(page, dpi) ==
    IF page.words.k = "raise" THEN << >>
    ELSE [i \in 1..Len(page.words.v) |-> PlumberWord(page.words.v[i], dpi)]

\* lines 153-159: extract_tables(); any exception gives []
PlumberTables(page) ==
    IF page.tables.k = "raise" THEN << >>
    ELSE [i \in 1..Len(page.tables.v) |-> [rows |-> page.tables.v[i]]]

\* line 130: page.extract_text() or ""   (page.text.k is "str" or "none" here)
PlumberText(page) == IF page.text.k = "str" THEN page.text.v ELSE << >>

\* lines 123-172: one page, given that extract_text() returned
PlumberPage(pindex, page, dpi) ==
    [page_number |-> pindex,
     width_pts |-> page.width,
     height_pts |-> page.height,
     width_px |-> ToPixels(page.width, dpi),
     height_px |-> ToPixels(page.height, dpi),
     text |-> PlumberText(page),
     words |-> PlumberWords(page, dpi),
     tables |-> PlumberTables(page)]

\* lines 112-173.  extract_text() is called outside any try: when it raises on some
\* page the exception leaves the function.
extract_with_pdfplumber(d, dpi) ==
    IF "pdfplumber" \notin installed
    THEN Http(500, "pdfplumber not installed on server")
    ELSE IF d.struct.open = "raise" THEN Exc("pdfplumber.open failed")
    ELSE IF \E i \in 1..Len(d.struct.pages) : d.struct.pages[i].text.k = "raise"
    THEN Exc("extract_text failed")
    ELSE Ok([i \in 1..Len(d.struct.pages) |->
                PlumberPage(i - 1, d.struct.pages[i], dpi)])

----------------------------------------------------------------------------
(* extract_with_tesseract *)

\* line 194: int(conf) if conf != "-1" else -1; conf is an int, a float (the
\* real number n/d) or a str
TessConf(c) ==
    IF c.t = "int" THEN [ok |-> TRUE, v |-> c.v]
    ELSE IF c.t = "float" THEN [ok |-> TRUE, v |-> Trunc(c.n, c.d)]
    ELSE IF c.v = << "-", "1" >> THEN [ok |-> TRUE, v |-> -1]
    ELSE ParseInt(c.v)

\* a faulty TessWords: blank tokens are not skipped
RECURSIVE TessWordsNoSkip(_, _)
TessWordsNoSkip(tokens, acc) ==
    IF tokens = << >> THEN [words |-> acc, raised |-> FALSE]
    ELSE LET tk == Head(tokens)
             conf == TessConf(tk.conf)
         IN  IF ~conf.ok THEN [words |-> acc, raised |-> TRUE]
             ELSE TessWordsNoSkip(Tail(tokens),
                     Append(acc, [text |-> Strip(tk.text),
                                  bbox |-> << tk.left, tk.top,
                                              tk.left + tk.width, tk.top + tk.height >>,
                                  conf |-> conf.v]))

\* lines 193-203: the token loop.  Returns the words appended so far and whether an
\* exception ended the loop.
RECURSIVE TessWords(_, _)
TessWords(tokens, acc) ==
    IF tokens = << >> THEN [words |-> acc, raised |-> FALSE]
    ELSE LET tk == Head(tokens)
             conf == TessConf(tk.conf)
             txt == Strip(tk.text)
         IN  IF ~conf.ok THEN [words |-> acc, raised |-> TRUE]
             ELSE IF txt = << >> THEN TessWords(Tail(tokens), acc)
             ELSE TessWords(Tail(tokens),
                     Append(acc, [text |-> txt,
                                  bbox |-> << tk.left, tk.top,
                                              tk.left + tk.width, tk.top + tk.height >>,
                                  conf |-> conf.v]))

\* lines 187-218: one rasterized page.  words starts as [] and is only appended to;
\* the except clause (line 206) does not reset it.
TessPage(pindex, image) ==
    LET loop == IF image.data.k = "raise" THEN [words |-> << >>, raised |-> TRUE]
                ELSE TessWords(image.data.v, << >>)
        text == IF loop.raised \/ image.string.k # "str" THEN << >>
                ELSE image.string.v
    IN  [page_number |-> pindex,
         width_px |-> image.size[1],
         height_px |-> image.size[2],
         text |-> text,
         words |-> loop.words,
         tables |-> << >>]

\* lines 176-220
extract_with_tesseract(d, dpi) ==
    IF "pdf2image" \notin installed \/ "pytesseract" \notin installed
    THEN Http(500, "pdf2image or pytesseract not installed on server")
    ELSE IF d.raster.render = "raise" THEN Exc("convert_from_path failed")
    ELSE Ok([i \in 1..Len(d.raster.images) |-> TessPage(i - 1, d.raster.images[i])])

----------------------------------------------------------------------------
(* The documents the adapters are run on *)

\* sequences over S of length 0..n
SeqsUpTo(S, n) == UNION { [1..k -> S] : k \in 0..n }

\* page sequences of length 0..n: any first page, later pages from Rest
PageSeqs(First, Rest, n) ==
    { << >> } \cup
    { << f >> \o r : f \in First, r \in SeqsUpTo(Rest, n - 1) }

Dims == { << 612 * PtDen, 792 * PtDen >>,       \* US Letter
          << 595 * PtDen + 1, 841 * PtDen + 3 >>,   \* just above 595 x 841
          << 54 * PtDen, 1332 * PtDen >>,         \* whole pixels at 148 and 110 dpi
          << 1, 47 >> }

ShortText == << "H", "i", " ", "y", "o", "u" >>

RawWordLists ==
    { << >>,
      << [text |-> << "H", "i" >>, x0 |-> 288, top |-> 289, x1 |-> 347, bottom |-> 335],
         [text |-> << "y", "o", "u" >>, x0 |-> -5, top |-> 1, x1 |-> 47, bottom |-> 49] >>,
      << [text |-> << "H", "i" >>, x0 |-> 54 * PtDen, top |-> 792 * PtDen] >> }

TableLists == { << >>, << << << << "a" >>, << >> >> >> >> }

StructTexts == { [k |-> "none"], [k |-> "raise"], [k |-> "str", v |-> ShortText],
                 [k |-> "str", v |-> << >>] }
StructWords == { [k |-> "raise"] } \cup { [k |-> "list", v |-> w] : w \in RawWordLists }
StructTables == { [k |-> "raise"] } \cup { [k |-> "list", v |-> t] : t \in TableLists }

StructPages ==
    { [width |-> d[1], height |-> d[2], text |-> t, words |-> w, tables |-> tb] :
        d \in Dims, t \in StructTexts, w \in StructWords, tb \in StructTables }

GoodStructPage ==
    [width |-> 612 * PtDen, height |-> 792 * PtDen,
     text |-> [k |-> "str", v |-> ShortText],
     words |-> [k |-> "list",
                v |-> << [text |-> << "H", "i" >>, x0 |-> 288, top |-> 289,
                          x1 |-> 347, bottom |-> 335] >>],
     tables |-> [k |-> "list", v |-> << << << << "a" >> >> >> >>]]

RestStructPages ==
    { GoodStructPage,
      [GoodStructPage EXCEPT !.text = [k |-> "raise"]],
      [GoodStructPage EXCEPT !.words = [k |-> "raise"], !.tables = [k |-> "raise"]] }

StructDocs ==
    { [open |-> "raise", pages |-> << >>] } \cup
    { [open |-> "ok", pages |-> ps] :
        ps \in PageSeqs(StructPages, RestStructPages, MaxPages) }

Tokens ==
    { [level |-> 5, conf |-> [t |-> "int", v |-> 96], text |-> << " ", "H", "i", "\n" >>,
       left |-> 10, top |-> 20, width |-> 30, height |-> 12],
      [level |-> 5, conf |-> [t |-> "str", v |-> << "\\x0b", "8", "_", "\\u0667" >>],
       text |-> << "\\x1c", "y", "o", "u", "\\xa0" >>,
       left |-> 45, top |-> 21, width |-> 0, height |-> 11],
      [level |-> 4, conf |-> [t |-> "str", v |-> << "-", "1" >>], text |-> << " ", "\\x0b" >>,
       left |-> 0, top |-> 0, width |-> 1275, height |-> 40],
      [level |-> 5, conf |-> [t |-> "float", n |-> 191, d |-> 2], text |-> << "z" >>,
       left |-> 3, top |-> 4, width |-> 5, height |-> 6],
      [level |-> 1, conf |-> [t |-> "int", v |-> -1], text |-> << >>,
       left |-> 0, top |-> 0, width |-> 1275, height |-> 1650],
      [level |-> 5, conf |-> [t |-> "str", v |-> << "9", ".", "5" >>], text |-> << "x" >>,
       left |-> 7, top |-> 8, width |-> 9, height |-> 10] }

OcrData == { [k |-> "raise"] } \cup
           { [k |-> "dict", v |-> ts] : ts \in SeqsUpTo(Tokens, MaxTokens) }
OcrStrings == { [k |-> "raise"], [k |-> "none"], [k |-> "str", v |-> ShortText] }

Images ==
    { [size |-> << 1275, 1650 >>, data |-> d, string |-> st] :
        d \in OcrData, st \in OcrStrings }

GoodImage ==
    [size |-> << 1240, 1753 >>,
     data |-> [k |-> "dict",
               v |-> << [level |-> 5, conf |-> [t |-> "int", v |-> 96],
                         text |-> << " ", "H", "i", "\n" >>,
                         left |-> 10, top |-> 20, width |-> 30, height |-> 12] >>],
     string |-> [k |-> "str", v |-> ShortText]]

RestImages ==
    { GoodImage,
      [GoodImage EXCEPT !.data = [k |-> "raise"]],
      [GoodImage EXCEPT !.string = [k |-> "raise"]] }

RasterDocs ==
    { [render |-> "raise", images |-> << >>] } \cup
    { [render |-> "ok", images |-> ims] :
        ims \in PageSeqs(Images, RestImages, MaxPages) }

EmptyStruct == [open |-> "ok", pages |-> << >>]
EmptyRaster == [render |-> "ok", images |-> << >>]

AdapterDocs ==
    { [struct |-> sd, raster |-> EmptyRaster] : sd \in StructDocs } \cup
    { [struct |-> EmptyStruct, raster |-> rd] : rd \in RasterDocs }

\* the resolutions the adapters are called with: the program's own, two for which
\* dpi / 72.0 is exact or rounded up, and 148 and 110 for which it is rounded down
DpiSet == { PREVIEW_DPI, PointsPerInch, 2 * PREVIEW_DPI, 148, 110 }

----------------------------------------------------------------------------
(* Adapter-level specification: each adapter run on every document *)

InitIdleExtract ==
    /\ req = [filename |-> << >>, models |-> << >>]
    /\ pc = "idle"
    /\ chosen = << >>
    /\ midx = 0
    /\ response = << >>
    /\ summary = << >>
    /\ reply = Pending
    /\ invoked = << >>

InitIdlePreview ==
    /\ cache = << >>
    /\ preq = << >>
    /\ ppc = << >>
    /\ pwritten = << >>
    /\ phit = << >>
    /\ prendered = << >>
    /\ pseen = << >>
    /\ pend = << >>
    /\ cwrites = << >>

InitAdapters ==
    /\ installed \in SUBSET Libs
    /\ doc \in AdapterDocs
    /\ call = NoCall
    /\ ret = Pending
    /\ InitIdleExtract
    /\ InitIdlePreview

CallPdfplumber ==
    /\ call = NoCall
    /\ \E dpi \in DpiSet :
          /\ call' = [fn |-> "pdfplumber", dpi |-> dpi]
          /\ ret' = extract_with_pdfplumber(doc, dpi)
    /\ UNCHANGED << installed, doc, extractVars, previewVars >>

CallTesseract ==
    /\ call = NoCall
    /\ \E dpi \in DpiSet :
          /\ call' = [fn |-> "tesseract", dpi |-> dpi]
          /\ ret' = extract_with_tesseract(doc, dpi)
    /\ UNCHANGED << installed, doc, extractVars, previewVars >>

NextAdapters == CallPdfplumber \/ CallTesseract

SpecAdapters == InitAdapters /\ [][NextAdapters]_vars

----------------------------------------------------------------------------
(* Properties of the adapters (checked under SpecAdapters) *)

PlumberRan == call.fn = "pdfplumber" /\ "pdfplumber" \in installed
TesseractRan ==
    call.fn = "tesseract" /\ "pdf2image" \in installed /\ "pytesseract" \in installed

\* q is the floor of the real number n/d (d > 0), stated without division
IsFloorOf(q, n, d) == q * d <= n /\ n < (q + 1) * d

\* q is n/d truncated toward zero (d > 0), stated without division
IsTruncOf(q, n, d) ==
    IF n >= 0 THEN IsFloorOf(q, n, d) ELSE IsFloorOf(-q, -n, d)

\* the four point-space edges of raw word w, as lines 138-141 read them
RawEdges(w) ==
    LET x0 == IF "x0" \in DOMAIN w THEN w.x0 ELSE 0
        top == IF "top" \in DOMAIN w THEN w.top ELSE 0
    IN  << x0, top,
           IF "x1" \in DOMAIN w THEN w.x1 ELSE x0,
           IF "bottom" \in DOMAIN w THEN w.bottom ELSE top >>

\* C5 (as claimed): in extract_with_pdfplumber a failing table, word or text
\* extraction of a page empties that field only; the pipeline still returns every
\* page, and only a failure to open the document aborts it.
C5_PerFieldIsolation ==
    (PlumberRan /\ doc.struct.open = "ok") =>
        /\ ret.kind = "ok"
        /\ Len(ret.pages) = Len(doc.struct.pages)
        /\ \A i \in 1..Len(doc.struct.pages) :
              LET p == doc.struct.pages[i]
                  r == ret.pages[i]
              IN  /\ p.tables.k = "raise" => r.tables = << >>
                  /\ p.words.k = "raise" => r.words = << >>
                  /\ p.text.k = "raise" => r.text = << >>
                  /\ p.text.k = "str" => r.text = p.text.v
                  /\ p.words.k = "list" => Len(r.words) = Len(p.words.v)
                  /\ p.tables.k = "list" => Len(r.tables) = Len(p.tables.v)

\* an OCR failure happens while image im is processed: in image_to_data, in the
\* conversion of some token, or in image_to_string
OcrFails(im) ==
    \/ im.data.k = "raise"
    \/ im.data.k = "dict" /\ \E j \in 1..Len(im.data.v) : ~TessConf(im.data.v[j].conf).ok
    \/ im.string.k = "raise"

\* C6 (as claimed): in extract_with_tesseract any OCR failure on a page gives that
\* page text = "" and words = [], and the pipeline still returns every page.
C6_OcrFailureEmptiesPage ==
    (TesseractRan /\ doc.raster.render = "ok") =>
        /\ ret.kind = "ok"
        /\ Len(ret.pages) = Len(doc.raster.images)
        /\ \A i \in 1..Len(doc.raster.images) :
              OcrFails(doc.raster.images[i]) =>
                  ret.pages[i].text = << >> /\ ret.pages[i].words = << >>

\* a white-space character of Python's str
Blank(c) ==
    c \in { " ", "\t", "\n", "\r", "\f", "\\x0b", "\\x1c", "\\x1d", "\\x1e", "\\x1f",
            "\\x85", "\\xa0", "\\u1680", "\\u2000", "\\u2001", "\\u2002", "\\u2003",
            "\\u2004", "\\u2005", "\\u2006", "\\u2007", "\\u2008", "\\u2009", "\\u200a",
            "\\u2028", "\\u2029", "\\u202f", "\\u205f", "\\u3000" }

\* the tokens of a page whose text holds a character that is not white space
KeptTokens(im) ==
    SelectSeq(im.data.v, LAMBDA tk : \E j \in 1..Len(tk.text) : ~Blank(tk.text[j]))

\* t is s without the white space at its two ends (s not blank)
IsTrimOf(t, s) ==
    /\ t # << >> /\ ~Blank(t[1]) /\ ~Blank(t[Len(t)])
    /\ \E a \in 1..Len(s) :
          /\ a + Len(t) - 1 <= Len(s)
          /\ t = SubSeq(s, a, a + Len(t) - 1)
          /\ \A i \in 1..Len(s) : (i < a \/ i > a + Len(t) - 1) => Blank(s[i])

\* q is n/d truncated toward zero, or one nearer to zero where n/d is itself a
\* whole number other than 0 (d > 0)
IsTruncOrBelow(q, n, d) ==
    \/ IsTruncOf(q, n, d)
    \/ n > 0 /\ (q + 1) * d = n
    \/ n < 0 /\ (q - 1) * d = n

\* C8 (as claimed): every page of extract_with_pdfplumber with positive point dimensions has
\* width_px = floor(width_pts * D / 72) and height_px = floor(height_pts * D / 72),
\* and every edge of every word box is its point coordinate scaled by the same D / 72
\* and truncated toward zero; a 612 x 792 pt page at 150 dpi is 1275 x 1650 px.
C8_PixelGeometry ==
    (PlumberRan /\ ret.kind = "ok") =>
        \A i \in 1..Len(ret.pages) :
            LET p == doc.struct.pages[i]
                r == ret.pages[i]
                den == PointsPerInch * PtDen
            IN  /\ (p.width > 0 /\ p.height > 0) =>
                      /\ IsFloorOf(r.width_px, p.width * call.dpi, den)
                      /\ IsFloorOf(r.height_px, p.height * call.dpi, den)
                /\ (p.width = 612 * PtDen /\ p.height = 792 * PtDen /\ call.dpi = 150) =>
                      r.width_px = 1275 /\ r.height_px = 1650
                /\ p.words.k = "list" =>
                      /\ Len(r.words) = Len(p.words.v)
                      /\ \A j \in 1..Len(r.words) : \A e \in 1..4 :
                            IsTruncOf(r.words[j].bbox[e],
                                      RawEdges(p.words.v[j])[e] * call.dpi, den)

\* The pixel geometry the adapter delivers.  At PREVIEW_DPI = 150, the only
\* resolution extract() passes, every
\* page with positive point dimensions has width_px = floor(width_pts * 150 / 72)
\* and height_px = floor(height_pts * 150 / 72), every word edge is its coordinate
\* times 150 / 72 truncated toward zero, and a 612 x 792 pt page is 1275 x 1650 px.
\* At any resolution D the value is int(pts * (D / 72.0)) in double arithmetic:
\* the truncated quotient, or one less in magnitude where pts * D / 72 is a whole
\* number (a 54 pt width at D = 148 gives 110, not 111).  Page geometry and word
\* edges go through the same computation: a word edge at the page's width or
\* height has the pixel value width_px or height_px.
PixelGeometryDelivered ==
    (PlumberRan /\ ret.kind = "ok") =>
        \A i \in 1..Len(ret.pages) :
            LET p == doc.struct.pages[i]
                r == ret.pages[i]
                den == PointsPerInch * PtDen
            IN  /\ (call.dpi = 150 /\ p.width > 0 /\ p.height > 0) =>
                      /\ IsFloorOf(r.width_px, p.width * 150, den)
                      /\ IsFloorOf(r.height_px, p.height * 150, den)
                /\ (p.width = 612 * PtDen /\ p.height = 792 * PtDen /\ call.dpi = 150) =>
                      r.width_px = 1275 /\ r.height_px = 1650
                /\ (p.width = 54 * PtDen /\ call.dpi = 148) => r.width_px = 110
                /\ IsTruncOrBelow(r.width_px, p.width * call.dpi, den)
                /\ IsTruncOrBelow(r.height_px, p.height * call.dpi, den)
                /\ p.words.k = "list" =>
                      /\ Len(r.words) = Len(p.words.v)
                      /\ \A j \in 1..Len(r.words) : \A e \in 1..4 :
                            LET c == RawEdges(p.words.v[j])[e]
                                px == r.words[j].bbox[e]
                            IN  /\ call.dpi = 150 => IsTruncOf(px, c * 150, den)
                                /\ IsTruncOrBelow(px, c * call.dpi, den)
                                /\ c = p.width => px = r.width_px
                                /\ c = p.height => px = r.height_px

\* C10: on every page where OCR succeeds the words are the tokens with non-blank
\* text, in order, each with bbox (left, top, left+width, top+height); the text is
\* the plain-text output whatever tokens were dropped; tables is always empty.
C10_OcrWords ==
    (TesseractRan /\ ret.kind = "ok") =>
        \A i \in 1..Len(ret.pages) :
            LET im == doc.raster.images[i]
                r == ret.pages[i]
            IN  /\ r.tables = << >>
                /\ ~OcrFails(im) =>
                      LET kept == KeptTokens(im)
                      IN  /\ Len(r.words) = Len(kept)
                          /\ \A j \in 1..Len(kept) :
                                /\ IsTrimOf(r.words[j].text, kept[j].text)
                                /\ r.words[j].bbox =
                                      << kept[j].left, kept[j].top,
                                         kept[j].left + kept[j].width,
                                         kept[j].top + kept[j].height >>
                          /\ r.text = IF im.string.k = "str" THEN im.string.v ELSE << >>

\* C10 witness: a page on which OCR succeeded, a blank token was dropped and a
\* word was kept, and the page text is the plain-text output
C10_Witness ==
    /\ TesseractRan /\ ret.kind = "ok"
    /\ \E i \in 1..Len(ret.pages) :
          LET im == doc.raster.images[i]
          IN  /\ ~OcrFails(im)
              /\ Len(im.data.v) = 2
              /\ Len(ret.pages[i].words) = 1
              /\ ret.pages[i].words[1].bbox = << 10, 20, 40, 32 >>
              /\ ret.pages[i].text = ShortText

----------------------------------------------------------------------------
(* POST /extract *)

\* the one file in UPLOAD_DIR
UploadedName == << "u", "1", "_", "a", ".", "p", "d", "f" >>

\* ".." in filename
HasDotDot(f) == \E i \in 1..(Len(f) - 1) : f[i] = "." /\ f[i + 1] = "."

\* lines 83-87: _safe_file_path raises HTTPException(400)
UnsafeName(f) == HasDotDot(f) \/ (f # << >> /\ Head(f) = "/")

\* the components of path f: the pieces between its "/" characters
RECURSIVE SplitPath(_, _, _)
SplitPath(f, cur, acc) ==
    IF f = << >> THEN Append(acc, cur)
    ELSE IF Head(f) = "/" THEN SplitPath(Tail(f), << >>, Append(acc, cur))
    ELSE SplitPath(Tail(f), Append(cur, Head(f)), acc)

\* the look-up of the components parts, begun in UPLOAD_DIR; at tells whether the
\* look-up stands on a directory or on a file.  An empty component and "." stay in
\* place, and nothing can follow a file.
RECURSIVE Resolves(_, _)
Resolves(parts, at) ==
    IF parts = << >> THEN TRUE
    ELSE IF at = "file" THEN FALSE
    ELSE IF Head(parts) \in { << >>, << "." >> } THEN Resolves(Tail(parts), "dir")
    ELSE IF Head(parts) = UploadedName THEN Resolves(Tail(parts), "file")
    ELSE FALSE

\* lines 87, 230: os.path.exists(os.path.join(UPLOAD_DIR, f)) for an f that passed
\* _safe_file_path.  True of the uploaded file and of UPLOAD_DIR itself ("", ".").
FileExists(f) == Resolves(SplitPath(f, << >>, << >>), "dir")

\* the characters of a model identifier
ModelChars(m) ==
    IF m = "pdfplumber" THEN << "p", "d", "f", "p", "l", "u", "m", "b", "e", "r" >>
    ELSE IF m = "tesseract" THEN << "t", "e", "s", "s", "e", "r", "a", "c", "t" >>
    ELSE << "b", "o", "g", "u", "s" >>

\* the backquote character (a TLA+ string cannot hold it)
BQ == "bq"

\* a faulty SummaryBlock: the [:2000] slice is missing
SummaryBlockNoCut(m, text) ==
    << "#", "#", " " >> \o ModelChars(m) \o
    << " ", "-", " ", "p", "a", "g", "e", " ", "0", " ", "t", "e", "x", "t", "\n", "\n", BQ, BQ, BQ, "\n" >> \o
    text \o << "\n", BQ, BQ, BQ, "\n" >>

\* line 261: f"## {m} - page 0 text\n\n<fence>\n{text[:2000]}\n<fence>\n", <fence> being three backquotes
SummaryBlock(m, text) ==
    << "#", "#", " " >> \o ModelChars(m) \o
    << " ", "-", " ", "p", "a", "g", "e", " ", "0", " ", "t", "e", "x", "t", "\n", "\n", BQ, BQ, BQ, "\n" >> \o
    Prefix(text, SummaryLimit) \o << "\n", BQ, BQ, BQ, "\n" >>

\* lines 255-261: md_parts, one block per entry of chosen whose slot holds pages
RECURSIVE MdParts(_, _)
MdParts(ch, models) ==
    IF ch = << >> THEN << >>
    ELSE LET m == Head(ch)
             pages == IF m \in DOMAIN models /\ models[m].kind = "ok"
                      THEN models[m].pages ELSE << >>
         IN  (IF pages # << >> THEN << SummaryBlock(m, pages[1].text) >> ELSE << >>)
             \o MdParts(Tail(ch), models)

\* line 262: "\n\n".join(md_parts)
SummaryMarkdown(ch, models) == Join(MdParts(ch, models), << "\n", "\n" >>)

\* lines 243-246: the adapter of model m (an m that is neither runs nothing)
RunAdapter(m) ==
    IF m = "pdfplumber" THEN extract_with_pdfplumber(doc, PREVIEW_DPI)
    ELSE IF m = "tesseract" THEN extract_with_tesseract(doc, PREVIEW_DPI)
    ELSE [kind |-> "skip"]

\* lines 247-249: the except clause that re-raises: HTTPException only
Reraised(out) == out.kind = "http"

\* lines 244, 246, 252: what is stored under response["models"][m]
Entry(out) ==
    IF out.kind = "ok" THEN out
    ELSE [kind |-> "error",
          error |-> IF out.kind = "exc" THEN out.msg ELSE out.detail]

\* line 236: HTTPException(400, f"No valid models chosen. Supported: {list(...)}")
NoValidModels ==
    [kind |-> "http", status |-> 400, detail |-> "No valid models chosen. Supported:",
     supported |-> supported_models]

\* lines 229-238: path check, existence check, model filter
Validate ==
    /\ pc = "start"
    /\ IF UnsafeName(req.filename)
       THEN /\ reply' = Http(400, "Invalid filename")
            /\ pc' = "done"
            /\ UNCHANGED << chosen, midx >>
       ELSE IF ~FileExists(req.filename)
       THEN /\ reply' = Http(404, "File not found")
            /\ pc' = "done"
            /\ UNCHANGED << chosen, midx >>
       ELSE LET ch == Filter(req.models, supported_models)
            IN  /\ chosen' = ch
                /\ IF ch = << >>
                   THEN /\ reply' = NoValidModels
                        /\ pc' = "done"
                        /\ UNCHANGED midx
                   ELSE /\ pc' = "run"
                        /\ midx' = 1
                        /\ UNCHANGED reply
    /\ UNCHANGED << installed, doc, adapterVars, req, response, summary, invoked,
                    previewVars >>

\* lines 241-252: one iteration of the loop over chosen.  An HTTPException of the
\* adapter is re-raised and ends the request; any other exception becomes the
\* model's {"error": ...} entry.
RunModel ==
    /\ pc = "run"
    /\ midx <= Len(chosen)
    /\ LET m == chosen[midx]
           out == RunAdapter(m)
       IN  /\ invoked' = IF out.kind = "skip" THEN invoked ELSE Append(invoked, m)
           /\ IF Reraised(out)
              THEN /\ reply' = out
                   /\ pc' = "done"
                   /\ UNCHANGED << response, midx >>
              ELSE /\ response' = IF out.kind = "skip" THEN response
                                  ELSE (m :> Entry(out)) @@ response
                   /\ midx' = midx + 1
                   /\ pc' = IF midx = Len(chosen) THEN "summary" ELSE "run"
                   /\ UNCHANGED reply
    /\ UNCHANGED << installed, doc, adapterVars, req, chosen, summary, previewVars >>

\* lines 254-276: the summary, the result file (its write may fail: the response
\* then lacks "result_file"), the response
Summarize ==
    /\ pc = "summary"
    /\ summary' = SummaryMarkdown(chosen, response)
    /\ \E saved \in BOOLEAN :
          reply' = [kind |-> "ok", status |-> 200, filename |-> req.filename,
                    models |-> response, summary_markdown |-> summary',
                    result_file |-> saved]
    /\ pc' = "done"
    /\ UNCHANGED << installed, doc, adapterVars, req, chosen, midx, response, invoked,
                    previewVars >>

\* the documents /extract is run on: page-0 texts below, at and above the limit
TextOfLen(n, c, over) == [i \in 1..n |-> IF i <= SummaryLimit THEN c ELSE over]

OrchStructPage(text) ==
    [width |-> 612 * PtDen, height |-> 792 * PtDen, text |-> text,
     words |-> [k |-> "list", v |-> << >>], tables |-> [k |-> "list", v |-> << >>]]

OrchStructDocs ==
    { [open |-> "raise", pages |-> << >>],
      EmptyStruct,
      [open |-> "ok", pages |-> << OrchStructPage([k |-> "raise"]) >>],
      [open |-> "ok", pages |-> << OrchStructPage([k |-> "str", v |-> ShortText]) >>],
      [open |-> "ok",
       pages |-> << OrchStructPage([k |-> "str", v |-> TextOfLen(SummaryLimit, "a", "!")]) >>],
      [open |-> "ok",
       pages |-> << OrchStructPage([k |-> "str", v |-> TextOfLen(SummaryLimit + 1, "a", "!")]),
                    GoodStructPage >>] }

OrchImage(string) ==
    [size |-> << 1275, 1650 >>, data |-> [k |-> "dict", v |-> << >>], string |-> string]

OrchRasterDocs ==
    { [render |-> "raise", images |-> << >>],
      EmptyRaster,
      [render |-> "ok", images |-> << OrchImage([k |-> "raise"]) >>],
      [render |-> "ok", images |-> << OrchImage([k |-> "str", v |-> ShortText]) >>],
      [render |-> "ok",
       images |-> << OrchImage([k |-> "str", v |-> TextOfLen(SummaryLimit + 2, "c", "?")]) >>] }

OrchDocs == { [struct |-> sd, raster |-> rd] : sd \in OrchStructDocs, rd \in OrchRasterDocs }

\* names under which UPLOAD_DIR holds something: the upload, the upload by way
\* of ".", and the directory itself
ExistingNames == { UploadedName, << ".", "/" >> \o UploadedName, << >>, << "." >> }

\* names under which it holds nothing
MissingNames == { << "u", "2", "_", "b", ".", "p", "d", "f" >>, UploadedName \o << "/" >> }

\* names _safe_file_path refuses
RefusedNames == { << ".", ".", "/", "x", ".", "p", "d", "f" >>,
                  << "/", "x", ".", "p", "d", "f" >> }

Filenames == ExistingNames \cup MissingNames \cup RefusedNames

ModelIds == supported_models \cup { "bogus" }

Requests ==
    { [filename |-> f, models |-> ms] :
        f \in Filenames, ms \in SeqsUpTo(ModelIds, MaxModels) }

\* a request arrives.  Requests share no state (each builds its own response), so
\* a behaviour follows one request from arrival to reply.
Receive ==
    /\ pc = "idle"
    /\ req' \in Requests
    /\ pc' = "start"
    /\ chosen' = << >>
    /\ midx' = 0
    /\ response' = << >>
    /\ summary' = << >>
    /\ reply' = Pending
    /\ invoked' = << >>
    /\ UNCHANGED << installed, doc, adapterVars, previewVars >>

Init ==
    /\ installed \in SUBSET Libs
    /\ doc \in OrchDocs
    /\ call = NoCall
    /\ ret = Pending
    /\ InitIdleExtract
    /\ InitIdlePreview

Next == Receive \/ Validate \/ RunModel \/ Summarize

Spec == Init /\ [][Next]_vars

----------------------------------------------------------------------------
(* Properties of POST /extract (checked under Spec) *)

Done == pc = "done"
Range(q) == { q[i] : i \in 1..Len(q) }

\* the valid identifiers the request names
ValidRequested == { m \in { "pdfplumber", "tesseract" } : m \in Range(req.models) }

\* the request passes validation: its path exists, a valid pipeline is named
PassesValidation ==
    /\ req.filename \in ExistingNames
    /\ ValidRequested # { }

\* the libraries model m needs are installed
Available(m) ==
    IF m = "pdfplumber" THEN "pdfplumber" \in installed
    ELSE { "pdf2image", "pytesseract" } \subseteq installed

\* the structural parser is there, the OCR engine is not, and the request names
\* [structural, ocr] for the uploaded document
C1_Case ==
    /\ "pdfplumber" \in installed
    /\ "pytesseract" \notin installed
    /\ req.filename = UploadedName
    /\ req.models = << "pdfplumber", "tesseract" >>

\* C1 (as claimed): with the OCR engine unavailable and the structural parser
\* available, a request for [pdfplumber, tesseract] succeeds, with a structural
\* result or error under "pdfplumber" and an error under "tesseract".
C1_PartialSuccess ==
    (Done /\ C1_Case) =>
        /\ reply.kind = "ok"
        /\ DOMAIN reply.models = { "pdfplumber", "tesseract" }
        /\ reply.models["tesseract"].kind = "error"

\* What extract() does in that case: the whole request fails with HTTP 500
\* "pdf2image or pytesseract not installed on server"; the structural adapter has
\* run, the OCR adapter was called, and no response body is returned.
DependencyAbortsRequest ==
    (Done /\ C1_Case) =>
        /\ reply.kind = "http"
        /\ reply.status = 500
        /\ reply.detail = "pdf2image or pytesseract not installed on server"
        /\ invoked = << "pdfplumber", "tesseract" >>

\* C2 (as claimed): every request that passes validation gets a response with an
\* entry (pages or an error string) for every valid pipeline it names, whatever the
\* adapters did; every such adapter was run.
C2_EntryForEveryPipeline ==
    (Done /\ PassesValidation) =>
        /\ reply.kind = "ok"
        /\ DOMAIN reply.models = ValidRequested
        /\ \A m \in ValidRequested : reply.models[m].kind \in { "ok", "error" }
        /\ Range(invoked) = ValidRequested

\* What extract() does for a request that passes validation.  When the libraries
\* of every valid pipeline it names are installed, there is an entry for each of
\* them: pages when the adapter returned, an error string when it raised; every
\* adapter was run, in request order.  When a named pipeline's library is missing
\* the request fails with HTTP 500 at that pipeline, before any later one runs.
EntryUnlessUnavailable ==
    (Done /\ PassesValidation) =>
        IF \A m \in ValidRequested : Available(m)
        THEN /\ reply.kind = "ok"
             /\ DOMAIN reply.models = ValidRequested
             /\ \A m \in ValidRequested : reply.models[m].kind \in { "ok", "error" }
             /\ ("pdfplumber" \in ValidRequested =>
                    (reply.models["pdfplumber"].kind = "error"
                        <=> (doc.struct.open = "raise"
                             \/ \E i \in 1..Len(doc.struct.pages) :
                                   doc.struct.pages[i].text.k = "raise")))
             /\ ("tesseract" \in ValidRequested =>
                    (reply.models["tesseract"].kind = "error"
                        <=> doc.raster.render = "raise"))
             /\ Len(invoked) = Len(chosen)
             /\ \A i \in 1..Len(invoked) : invoked[i] = chosen[i]
        ELSE /\ reply.kind = "http"
             /\ reply.status = 500
             /\ invoked # << >>
             /\ ~Available(invoked[Len(invoked)])
             /\ \A i \in 1..(Len(invoked) - 1) : Available(invoked[i])

\* C3: nothing runs before validation.  A request for a name under which the
\* upload directory holds nothing fails (404, or 400 for a refused name) with no
\* adapter invoked; a request for an existing path with no supported identifier
\* fails with HTTP 400 naming {pdfplumber, tesseract} and no adapter invoked;
\* otherwise unknown identifiers are dropped and the response has keys only for
\* the valid ones ([bogus, pdfplumber] gives only a pdfplumber entry).
C3_ValidateFirst ==
    /\ (invoked # << >> => PassesValidation /\ Range(invoked) \subseteq ValidRequested)
    /\ Done =>
          /\ req.filename \notin ExistingNames =>
                reply.kind = "http" /\ reply.status \in { 400, 404 } /\ invoked = << >>
          /\ req.filename \in MissingNames => reply.status = 404
          /\ req.filename \in RefusedNames => reply.status = 400
          /\ (req.filename \in ExistingNames /\ ValidRequested = { }) =>
                /\ reply.kind = "http" /\ reply.status = 400
                /\ reply.supported = { "pdfplumber", "tesseract" }
                /\ invoked = << >>
          /\ reply.kind = "ok" => DOMAIN reply.models = ValidRequested
          /\ (reply.kind = "ok" /\ req.models = << "bogus", "pdfplumber" >>) =>
                DOMAIN reply.models = { "pdfplumber" }

\* C3 witness: [bogus, pdfplumber] answered with a pdfplumber entry alone
C3_Witness ==
    /\ Done /\ reply.kind = "ok"
    /\ req.filename = UploadedName
    /\ req.models = << "bogus", "pdfplumber" >>
    /\ DOMAIN reply.models = { "pdfplumber" }
    /\ invoked = << "pdfplumber" >>

\* the entries of the request, in order, that ran and whose slot holds a page
RunsWithPages ==
    SelectSeq(req.models,
              LAMBDA m : /\ m \in { "pdfplumber", "tesseract" }
                         /\ reply.models[m].kind = "ok"
                         /\ Len(reply.models[m].pages) >= 1)

\* the labelled block of pipeline m as the response should show it: the label,
\* the first min(2000, length) characters of page 0's text, the closing fence
ExpectedBlock(m) ==
    LET t == reply.models[m].pages[1].text
        n == IF Len(t) <= 2000 THEN Len(t) ELSE 2000
        label == IF m = "pdfplumber"
                 THEN << "#", "#", " ", "p", "d", "f", "p", "l", "u", "m", "b", "e", "r", " ", "-", " ", "p", "a", "g", "e", " ", "0", " ", "t", "e", "x", "t", "\n", "\n", BQ, BQ, BQ, "\n" >>
                 ELSE << "#", "#", " ", "t", "e", "s", "s", "e", "r", "a", "c", "t", " ", "-", " ", "p", "a", "g", "e", " ", "0", " ", "t", "e", "x", "t", "\n", "\n", BQ, BQ, BQ, "\n" >>
    IN  label \o [i \in 1..n |-> t[i]] \o << "\n", BQ, BQ, BQ, "\n" >>

\* blocks b[from..] laid out one after the other with "\n\n" between them
RECURSIVE Laid(_, _)
Laid(ms, k) ==
    IF k > Len(ms) THEN << >>
    ELSE IF k = Len(ms) THEN ExpectedBlock(ms[k])
    ELSE ExpectedBlock(ms[k]) \o << "\n", "\n" >> \o Laid(ms, k + 1)

\* C4: the summary is the blank-line-separated join of one labelled block per run
\* of a pipeline that ended with at least one page, each block holding the first
\* min(2000, length) characters of that pipeline's page 0 text; pipelines that
\* errored or have no page contribute nothing; two page-0 texts longer than 2000
\* characters are each cut to exactly 2000.
C4_Summary ==
    (Done /\ reply.kind = "ok") =>
        /\ reply.summary_markdown = Laid(RunsWithPages, 1)
        /\ (RunsWithPages = << >> => reply.summary_markdown = << >>)
        /\ \A m \in DOMAIN reply.models :
              (reply.models[m].kind = "ok" /\ reply.models[m].pages # << >>
               /\ Len(reply.models[m].pages[1].text) > 2000)
                 => Len(ExpectedBlock(m)) = 2000 + 28 + Len(ModelChars(m))

\* C4 witness: two successful pipelines with page 0 texts longer than 2000
\* characters; the summary is two blocks of 2000 text characters each
C4_Witness ==
    /\ Done /\ reply.kind = "ok"
    /\ req.models = << "pdfplumber", "tesseract" >>
    /\ reply.models["pdfplumber"].kind = "ok" /\ reply.models["tesseract"].kind = "ok"
    /\ reply.models["pdfplumber"].pages # << >> /\ reply.models["tesseract"].pages # << >>
    /\ Len(reply.models["pdfplumber"].pages[1].text) > 2000
    /\ Len(reply.models["tesseract"].pages[1].text) > 2000
    /\ Len(reply.summary_markdown) = (2000 + 38) + 2 + (2000 + 37)
    /\ \A i \in 1..Len(reply.summary_markdown) :
          reply.summary_markdown[i] \notin { "!", "?" }

----------------------------------------------------------------------------
(* GET /preview/{filename}/{page_index} *)

\* os.path.basename(f): what follows the last "/"
Basename(f) ==
    LET parts == SplitPath(f, << >>, << >>) IN parts[Len(parts)]

\* index of the "." that begins the extension of b: its last ".", provided a
\* character other than "." stands before it; or 0
LastDot(b) ==
    LET dots == { i \in 1..Len(b) : b[i] = "." }
        last == CHOOSE i \in dots : \A j \in dots : j <= i
    IN  IF dots # { } /\ \E j \in 1..(last - 1) : b[j] # "." THEN last ELSE 0

\* line 98: os.path.splitext(os.path.basename(file_path))[0]
Stem(f) ==
    LET b == Basename(f)
    IN  IF LastDot(b) = 0 THEN b ELSE SubSeq(b, 1, LastDot(b) - 1)

\* lines 98-99: the preview file of (file, page): f"{stem}_p{page_index}.png"
PreviewName(f, page) == << Stem(f), page >>

\* the bytes image.save writes for a preview, in NChunks chunks
Png(name) == [k \in 1..NChunks |-> [part |-> k, of |-> name]]

\* a part of a file that no writer has written yet
Hole == [part |-> 0]

\* a faulty CacheHit: the look-up of the preview file is missing
CacheHitNever(name) == FALSE

\* line 100: os.path.exists(preview_path)
CacheHit(name) == name \in DOMAIN cache

\* the file after chunk k was written at its offset
WriteAt(content, k, chunk) ==
    [i \in 1..(IF Len(content) < k THEN k ELSE Len(content)) |->
        IF i = k THEN chunk ELSE IF i <= Len(content) THEN content[i] ELSE Hole]

NameOf(r) == PreviewName(preq[r].filename, preq[r].page)

Finish(r, outcome) ==
    /\ ppc' = [ppc EXCEPT ![r] = outcome]
    /\ pend' = [pend EXCEPT ![r] =
                  [at |-> 1 + Cardinality({ q \in DOMAIN pend : pend[q].at > 0 }),
                   writes |-> IF NameOf(r) \in DOMAIN cwrites
                              THEN cwrites[NameOf(r)] ELSE 0]]

\* lines 284-286, 95-101: path check, existence of the upload, the dependency
\* check, and the look-up of the preview file
PCheck(r) ==
    /\ ppc[r] = "start"
    /\ IF UnsafeName(preq[r].filename)
       THEN Finish(r, "http400") /\ UNCHANGED phit
       ELSE IF ~FileExists(preq[r].filename)
       THEN Finish(r, "http404") /\ UNCHANGED phit
       ELSE IF "pdf2image" \notin installed
       THEN Finish(r, "http500") /\ UNCHANGED phit
       ELSE IF CacheHit(NameOf(r))
       THEN /\ phit' = [phit EXCEPT ![r] = TRUE]
            /\ ppc' = [ppc EXCEPT ![r] = "respond"]
            /\ UNCHANGED pend
       ELSE /\ ppc' = [ppc EXCEPT ![r] = "render"]
            /\ UNCHANGED << phit, pend >>
    /\ UNCHANGED << installed, doc, adapterVars, extractVars, cache, preq, pwritten,
                    prendered, pseen, cwrites >>

\* lines 104-107, 292-294: convert_from_path for the one page; an exception or an
\* empty list ends the request with HTTP 500
PRender(r) ==
    /\ ppc[r] = "render"
    /\ prendered' = [prendered EXCEPT ![r] = @ + 1]
    /\ IF doc.raster.render = "raise" \/ preq[r].page + 1 > Len(doc.raster.images)
       THEN Finish(r, "http500")
       ELSE ppc' = [ppc EXCEPT ![r] = "open"] /\ UNCHANGED pend
    /\ UNCHANGED << installed, doc, adapterVars, extractVars, cache, preq, pwritten,
                    phit, pseen, cwrites >>

\* line 108: image.save opens preview_path for writing: the file exists, empty
PSaveOpen(r) ==
    /\ ppc[r] = "open"
    /\ cache' = (NameOf(r) :> << >>) @@ cache
    /\ cwrites' = (NameOf(r) :> (IF NameOf(r) \in DOMAIN cwrites
                                 THEN cwrites[NameOf(r)] + 1 ELSE 1)) @@ cwrites
    /\ pwritten' = [pwritten EXCEPT ![r] = 0]
    /\ ppc' = [ppc EXCEPT ![r] = "write"]
    /\ UNCHANGED << installed, doc, adapterVars, extractVars, preq, phit, prendered,
                    pseen, pend >>

\* line 108: image.save writes its next chunk at the writer's own offset
PSaveWrite(r) ==
    /\ ppc[r] = "write"
    /\ LET k == pwritten[r] + 1
       IN  /\ cache' = [cache EXCEPT ![NameOf(r)] = WriteAt(@, k, Png(NameOf(r))[k])]
           /\ pwritten' = [pwritten EXCEPT ![r] = k]
           /\ ppc' = [ppc EXCEPT ![r] = IF k = NChunks THEN "respond" ELSE "write"]
    /\ UNCHANGED << installed, doc, adapterVars, extractVars, preq, phit, prendered,
                    pseen, pend, cwrites >>

\* line 296: FileResponse serves the bytes the file holds
PRespond(r) ==
    /\ ppc[r] = "respond"
    /\ pseen' = [pseen EXCEPT ![r] = cache[NameOf(r)]]
    /\ Finish(r, "ok")
    /\ UNCHANGED << installed, doc, adapterVars, extractVars, cache, preq, pwritten,
                    phit, prendered, cwrites >>

\* the worker serving r is stopped while image.save is writing
PAbort(r) ==
    /\ ppc[r] = "write"
    /\ Finish(r, "aborted")
    /\ UNCHANGED << installed, doc, adapterVars, extractVars, cache, preq, pwritten,
                    phit, prendered, pseen, cwrites >>

PreviewRequests ==
    { [filename |-> f, page |-> pg] : f \in Filenames, pg \in 0..1 }

PreviewDocs ==
    { [struct |-> EmptyStruct, raster |-> rd] :
        rd \in { [render |-> "raise", images |-> << >>],
                 [render |-> "ok", images |-> << GoodImage >>] } }

InitPreview ==
    /\ installed \in { Libs, Libs \ { "pdf2image" } }
    /\ doc \in PreviewDocs
    /\ call = NoCall
    /\ ret = Pending
    /\ InitIdleExtract
    /\ cache = << >>
    /\ cwrites = << >>
    /\ preq \in [1..NReq -> PreviewRequests]
    /\ ppc = [r \in 1..NReq |-> "start"]
    /\ pwritten = [r \in 1..NReq |-> 0]
    /\ phit = [r \in 1..NReq |-> FALSE]
    /\ prendered = [r \in 1..NReq |-> 0]
    /\ pseen = [r \in 1..NReq |-> << >>]
    /\ pend = [r \in 1..NReq |-> [at |-> 0, writes |-> 0]]

PStep(r) == PCheck(r) \/ PRender(r) \/ PSaveOpen(r) \/ PSaveWrite(r) \/ PRespond(r)

\* requests served concurrently (the handlers run in a thread pool)
NextPreview == \E r \in 1..NReq : PStep(r) \/ PAbort(r)

SpecPreview == InitPreview /\ [][NextPreview]_vars

\* requests served one after the other, each to its end
Ended(r) == ppc[r] \in { "ok", "aborted", "http400", "http404", "http500" }

\* r's turn: every request before it has ended
Turn(r) == \A q \in 1..(r - 1) : Ended(q)

SeqCheck == \E r \in 1..NReq : Turn(r) /\ PCheck(r)
SeqRender == \E r \in 1..NReq : Turn(r) /\ PRender(r)
SeqSaveOpen == \E r \in 1..NReq : Turn(r) /\ PSaveOpen(r)
SeqSaveWrite == \E r \in 1..NReq : Turn(r) /\ PSaveWrite(r)
SeqRespond == \E r \in 1..NReq : Turn(r) /\ PRespond(r)

NextPreviewSeq == SeqCheck \/ SeqRender \/ SeqSaveOpen \/ SeqSaveWrite \/ SeqRespond

SpecPreviewSeq == InitPreview /\ [][NextPreviewSeq]_vars

----------------------------------------------------------------------------
(* Properties of the preview cache *)

\* C7 (as claimed): a request that found the preview file existing and served it
\* served the complete image, under any interleaving and any abort.
C7_NoPartialPreviewServed ==
    \A r \in DOMAIN ppc :
        (ppc[r] = "ok" /\ phit[r]) => pseen[r] = Png(NameOf(r))

\* two requests name the same page of the same path: the same name, or the
\* upload once plainly and once by way of "."
SamePage(r1, r2) ==
    /\ preq[r1].page = preq[r2].page
    /\ \/ preq[r1].filename = preq[r2].filename
       \/ { preq[r1].filename, preq[r2].filename } =
             { UploadedName, << ".", "/" >> \o UploadedName }

\* C9: of two preview requests for the same document and page served one after
\* the other, the first rendering and storing the image, the second finds the
\* entry, serves the same bytes from the same file, does not call the rasterizer
\* and leaves the stored file as the first one left it.
C9_SecondPreviewFromCache ==
    \A r1, r2 \in DOMAIN ppc :
        (/\ ppc[r1] = "ok" /\ ppc[r2] = "ok"
         /\ SamePage(r1, r2)
         /\ pend[r1].at < pend[r2].at) =>
            /\ phit[r2]
            /\ prendered[r2] = 0
            /\ pseen[r2] = pseen[r1]
            /\ pseen[r2] = Png(NameOf(r1))
            /\ pend[r2].writes = pend[r1].writes
            /\ cache[NameOf(r2)] = pseen[r1]

\* C9 witness: the first request rendered and stored page 0, the second served
\* it from the cache
C9_Witness ==
    \E r1, r2 \in DOMAIN ppc :
        /\ ppc[r1] = "ok" /\ ppc[r2] = "ok"
        /\ preq[r1] = preq[r2] /\ preq[r1].filename = UploadedName
        /\ pend[r1].at < pend[r2].at
        /\ prendered[r1] = 1 /\ ~phit[r1]
        /\ prendered[r2] = 0 /\ phit[r2]
        /\ pseen[r2] = Png(NameOf(r1))

====
